---- MODULE Spec2Model ----
(***************************************************************************)
(* Frame selection (src/src/frame_selection.py): uniform_sampling,         *)
(* scene_change_detection and motion_based_sampling over a list of frame   *)
(* paths.                                                                  *)
(*                                                                         *)
(* A frame path is denoted by its position in the list (1-based here, so   *)
(* position p of the Python list is index p + 1): extract_frames names the *)
(* k-th saved frame frame_<k>.jpg, so the paths of a list are distinct.    *)
(* What cv2 does with a path is an input of the model, carried by the      *)
(* frame's record:                                                         *)
(*   ok    - cv2.imread returns an image (FALSE: it returns None)          *)
(*   dim   - the shape of the decoded image                                *)
(*   val   - the content of the decoded image, from which its histogram    *)
(*           and its flow against another image are computed               *)
(*   fault - the feature primitive (cv2.calcHist, or                       *)
(*           cv2.calcOpticalFlowFarneback) raises when applied to it       *)
(***************************************************************************)
EXTENDS Integers, Sequences, FiniteSets, TLC

VARIABLES frames, selector, param, pc, err, i, prev, selected, nread, results

vars == <<frames, selector, param, pc, err, i, prev, selected, nread, results>>

\* ---------------------------------------------------------------- bounds

MaxLen == 4
MaxLenScene == 5
MaxLenUniform == 7
MaxCount == 8

\* ---------------------------------------------------------------- inputs

Frame(ok, dim, val, fault) == [ok |-> ok, dim |-> dim, val |-> val, fault |-> fault]

Undecodable == Frame(FALSE, 0, 0, FALSE)

FrameKinds ==
    {Undecodable, Frame(TRUE, 1, 2, TRUE)}
        \cup {Frame(TRUE, d, v, FALSE) : d \in {1, 2}, v \in {2, 8}}

SceneKinds ==
    {Undecodable, Frame(TRUE, 1, 2, TRUE)}
        \cup {Frame(TRUE, 1, v, FALSE) : v \in {2, 8, 12}}

UniformKinds == {Undecodable, Frame(TRUE, 1, 2, FALSE)}

SeqsUpTo(S, n) == UNION {[1..k -> S] : k \in 0..n}

Counts == (-1)..MaxCount

SceneThresholds == {0, 10, 30}

MotionThresholds == {-1, 0, 3}

\* ------------------------------------------------------------ primitives

None == <<>>

Min(a, b) == IF a <= b THEN a ELSE b

Abs(a) == IF a < 0 THEN -a ELSE a

\* frames[::step]
StrideSlice(s, step) ==
    [k \in 1..((Len(s) + step - 1) \div step) |-> s[(k - 1) * step + 1]]

\* s[:n], n >= 0
Prefix(s, n) == SubSeq(s, 1, Min(n, Len(s)))

Positions(fs) == [k \in 1..Len(fs) |-> k]

\* The concatenated, normalised histogram of a decoded frame, reduced to two
\* bins: one carrying the frame's content, one empty.
Hist(f) == <<f.val, 0>>

\* cv2.imread(frame_path, cv2.IMREAD_GRAYSCALE): shape and content.
Gray(f) == <<f.dim, f.val>>

Shape(raster) == raster[1]

RECURSIVE ChiSqrDen(_)
\* HISTCMP_CHISQR is the sum over the bins with a # 0 of (a - b)^2 / a; it is
\* kept exact as ChiSqrNum / ChiSqrDen, ChiSqrDen the product of those a.
ChiSqrDen(h1) ==
    IF h1 = <<>> THEN 1
    ELSE (IF Head(h1) = 0 THEN 1 ELSE Head(h1)) * ChiSqrDen(Tail(h1))

RECURSIVE ChiSqrSum(_, _, _)
ChiSqrSum(h1, h2, den) ==
    IF h1 = <<>> THEN 0
    ELSE (IF Head(h1) = 0 THEN 0
          ELSE (Head(h1) - Head(h2)) * (Head(h1) - Head(h2)) * (den \div Head(h1)))
         + ChiSqrSum(Tail(h1), Tail(h2), den)

ChiSqrNum(h1, h2) == ChiSqrSum(h1, h2, ChiSqrDen(h1))

\* The comparison reversed: frames closer than threshold are the changes.
DiffBelow(h1, h2, threshold) ==
    ChiSqrNum(h1, h2) < threshold * ChiSqrDen(h1)

\* diff > threshold, diff = cv2.compareHist(prev_hist, hist, HISTCMP_CHISQR)
DiffExceeds(h1, h2, threshold) ==
    ChiSqrNum(h1, h2) > threshold * ChiSqrDen(h1)

\* np.linalg.norm(flow, axis=2).mean() of the flow between two rasters of
\* one shape: zero for equal content, growing with the change of content.
MotionMagnitude(r1, r2) == Abs(r1[2] - r2[2])

\* ------------------------------------------------------------ validation

InvalidUniform(fs, num_samples) == Len(fs) = 0 \/ num_samples <= 0

InvalidScene(fs) == Len(fs) = 0

\* The check of threshold left out.
InvalidMotionEmptyOnly(fs, threshold) == Len(fs) = 0

InvalidMotion(fs, threshold) == Len(fs) = 0 \/ threshold < 0

\* -------------------------------------------------------- uniform_sampling

\* The stride rounded up instead of down.
UniformStepCeil(fs, num_samples) ==
    (Len(fs) + num_samples - 1) \div num_samples

UniformStep(fs, num_samples) == Len(fs) \div num_samples

UniformSelect(fs, num_samples) ==
    IF num_samples > Len(fs) THEN Positions(fs)
    ELSE Prefix(StrideSlice(Positions(fs), UniformStep(fs, num_samples)), num_samples)

Raise(sel, p, e) ==
    /\ selector' = sel
    /\ param' = p
    /\ pc' = "raised"
    /\ err' = e
    /\ i' = 0
    /\ prev' = None
    /\ selected' = <<>>
    /\ nread' = 0

Begin(sel, p, seed) ==
    /\ selector' = sel
    /\ param' = p
    /\ pc' = "scan"
    /\ err' = "none"
    /\ i' = 0
    /\ prev' = None
    /\ selected' = seed
    /\ nread' = 0

CallUniform(num_samples) ==
    /\ pc \in {"idle", "done", "raised"}
    /\ IF InvalidUniform(frames, num_samples)
       THEN Raise("uniform", num_samples, "ValueError")
       ELSE /\ selector' = "uniform"
            /\ param' = num_samples
            /\ pc' = "done"
            /\ err' = "none"
            /\ i' = 0
            /\ prev' = None
            /\ selected' = UniformSelect(frames, num_samples)
            /\ nread' = 0
    /\ UNCHANGED <<frames, results>>

\* -------------------------------------------------- scene_change_detection

SceneSeed(fs) == <<1>>

\* A frame with no previous histogram counted as a scene change.
SceneAppendsFirst(prev_hist, hist, threshold) ==
    IF prev_hist = None THEN TRUE ELSE DiffExceeds(prev_hist, hist, threshold)

SceneAppends(prev_hist, hist, threshold) ==
    IF prev_hist = None THEN FALSE ELSE DiffExceeds(prev_hist, hist, threshold)

\* The previous histogram replaced only by that of a selected frame.
ScenePrevOfSelected(prev_hist, hist, threshold) ==
    IF prev_hist = None \/ DiffExceeds(prev_hist, hist, threshold)
    THEN hist
    ELSE prev_hist

\* prev_hist = hist, whatever the comparison gave
ScenePrev(prev_hist, hist, threshold) == hist

CallScene(threshold) ==
    /\ pc \in {"idle", "done", "raised"}
    /\ threshold \notin DOMAIN results
    /\ IF InvalidScene(frames)
       THEN Raise("scene", threshold, "ValueError")
       ELSE Begin("scene", threshold, SceneSeed(frames))
    /\ UNCHANGED <<frames, results>>

SceneStep ==
    /\ pc = "scan"
    /\ selector = "scene"
    /\ i < Len(frames)
    /\ LET frame == frames[i + 1]
       IN  /\ nread' = nread + 1
           /\ IF ~frame.ok
              THEN /\ i' = i + 1
                   /\ UNCHANGED <<pc, err, prev, selected>>
              ELSE IF frame.fault
              THEN /\ pc' = "raised"
                   /\ err' = "Exception"
                   /\ selected' = <<>>
                   /\ UNCHANGED <<i, prev>>
              ELSE /\ selected' =
                        IF SceneAppends(prev, Hist(frame), param)
                        THEN Append(selected, i + 1)
                        ELSE selected
                   /\ prev' = ScenePrev(prev, Hist(frame), param)
                   /\ i' = i + 1
                   /\ UNCHANGED <<pc, err>>
    /\ UNCHANGED <<frames, selector, param, results>>

SceneReturn ==
    /\ pc = "scan"
    /\ selector = "scene"
    /\ i = Len(frames)
    /\ pc' = "done"
    /\ results' = (param :> selected) @@ results
    /\ UNCHANGED <<frames, selector, param, err, i, prev, selected, nread>>

\* --------------------------------------------------- motion_based_sampling

\* The result seeded with the first frame, as the scene selector does.
MotionSeedFirst(fs) == <<1>>

MotionSeed(fs) == <<>>

MotionAppends(prev_frame, frame, threshold) ==
    IF prev_frame = None THEN FALSE
    ELSE MotionMagnitude(prev_frame, frame) > threshold

CallMotion(threshold) ==
    /\ pc \in {"idle", "done", "raised"}
    /\ IF InvalidMotion(frames, threshold)
       THEN Raise("motion", threshold, "ValueError")
       ELSE Begin("motion", threshold, MotionSeed(frames))
    /\ UNCHANGED <<frames, results>>

MotionStep ==
    /\ pc = "scan"
    /\ selector = "motion"
    /\ i < Len(frames)
    /\ LET frame == frames[i + 1]
       IN  /\ nread' = nread + 1
           /\ i' = i + 1
           /\ IF ~frame.ok
              THEN UNCHANGED <<prev, selected>>
              ELSE IF prev # None /\ Shape(prev) # Shape(Gray(frame))
              THEN UNCHANGED <<prev, selected>>
              ELSE IF prev # None /\ frame.fault
              THEN UNCHANGED <<prev, selected>>
              ELSE /\ selected' =
                        IF MotionAppends(prev, Gray(frame), param)
                        THEN Append(selected, i + 1)
                        ELSE selected
                   /\ prev' = Gray(frame)
    /\ UNCHANGED <<frames, selector, param, pc, err, results>>

MotionReturn ==
    /\ pc = "scan"
    /\ selector = "motion"
    /\ i = Len(frames)
    /\ pc' = "done"
    /\ UNCHANGED <<frames, selector, param, err, i, prev, selected, nread, results>>

\* ---------------------------------------------------------- specifications

Idle ==
    /\ selector = "none"
    /\ param = 0
    /\ pc = "idle"
    /\ err = "none"
    /\ i = 0
    /\ prev = None
    /\ selected = <<>>
    /\ nread = 0
    /\ results = <<>>

Init == frames \in SeqsUpTo(FrameKinds, MaxLen) /\ Idle

InitScene == frames \in SeqsUpTo(SceneKinds, MaxLenScene) /\ Idle

InitUniform == frames \in SeqsUpTo(UniformKinds, MaxLenUniform) /\ Idle

UniformNext == \E n \in Counts : CallUniform(n)

SceneNext ==
    \/ \E t \in SceneThresholds : CallScene(t)
    \/ SceneStep
    \/ SceneReturn

MotionNext ==
    \/ \E t \in MotionThresholds : CallMotion(t)
    \/ MotionStep
    \/ MotionReturn

Next == UniformNext \/ SceneNext \/ MotionNext

Spec == Init /\ [][Next]_vars

SpecScene == InitScene /\ [][SceneNext]_vars

SpecUniform == InitUniform /\ [][UniformNext]_vars

\* ------------------------------------------------- vocabulary of the claims

Range(s) == {s[k] : k \in 1..Len(s)}

Max(S) == CHOOSE m \in S : \A x \in S : x <= m

Lowest(S) == CHOOSE m \in S : \A x \in S : m <= x

\* Indices of the frames cv2.imread decodes.
Decoded(fs) == {k \in 1..Len(fs) : fs[k].ok}

DecodedUpTo(fs, n) == {k \in Decoded(fs) : k <= n}

FirstDecoded(fs) == Lowest(Decoded(fs))

\* The decoded frames other than the first decoded one.
LaterDecoded(fs) ==
    IF Decoded(fs) = {} THEN {} ELSE Decoded(fs) \ {FirstDecoded(fs)}

\* The decoded frame immediately preceding frame k.
PrevDecoded(fs, k) == Max(DecodedUpTo(fs, k - 1))

StrictlyIncreasing(s) == \A k \in 1..(Len(s) - 1) : s[k] < s[k + 1]

RECURSIVE IsSubseq(_, _)
IsSubseq(a, b) ==
    IF a = <<>> THEN TRUE
    ELSE IF b = <<>> THEN FALSE
    ELSE IF Head(a) = Head(b) THEN IsSubseq(Tail(a), Tail(b))
    ELSE IsSubseq(a, Tail(b))

SceneDone == pc = "done" /\ selector = "scene"

MotionDone == pc = "done" /\ selector = "motion"

UniformDone == pc = "done" /\ selector = "uniform"

Vals(fs) == [k \in 1..Len(fs) |-> fs[k].val]

AllClean(fs) == \A k \in 1..Len(fs) : fs[k].ok /\ ~fs[k].fault

\* ------------------------------------------------------------------ claims

\* C1: scene_change_detection returns the first successfully decoded frame of
\* the sequence whenever at least one frame decodes, also when the frames
\* before it (the frame at position 0 included) fail to decode.
C1_FirstDecodedSelected ==
    (SceneDone /\ Decoded(frames) # {})
        => FirstDecoded(frames) \in Range(selected)

\* C2: uniform_sampling with count >= len(frames) returns all frames; with
\* count < len(frames) and stride = len(frames) \div count it returns exactly
\* count frames, those at positions 0, stride, ..., (count - 1) * stride, in
\* that order; four frames with count 2 give positions 0 and 2.
C2_UniformStride ==
    UniformDone =>
        LET n == Len(frames)
            stride == n \div param
        IN  /\ param >= n => selected = Positions(frames)
            /\ param < n =>
                   /\ Len(selected) = param
                   /\ \A k \in 1..Len(selected) :
                          selected[k] = (k - 1) * stride + 1
            /\ (n = 4 /\ param = 2) => selected = <<1, 3>>

C2_Witness ==
    /\ UniformDone
    /\ Len(frames) = 7
    /\ param = 3
    /\ selected = <<1, 3, 5>>

\* C3: in scene_change_detection a decoded frame other than the first decoded
\* one is returned iff the histogram distance from the decoded frame
\* immediately before it (selected or not) is strictly above threshold, and
\* the previous histogram is that of the last decoded frame at every point of
\* the scan; five identical frames with threshold 10 give [f0], and five
\* frames of which only frame 3 is at a distance (50) above threshold 30 give
\* [f0, f3].
C3_SelectedIffDistance ==
    /\ (selector = "scene" /\ pc \in {"scan", "done"}) =>
           prev = IF DecodedUpTo(frames, i) = {} THEN None
                  ELSE Hist(frames[Max(DecodedUpTo(frames, i))])
    /\ SceneDone =>
           \A k \in LaterDecoded(frames) :
               k \in Range(selected) <=>
                   DiffExceeds(Hist(frames[PrevDecoded(frames, k)]),
                               Hist(frames[k]), param)
    /\ (SceneDone /\ AllClean(frames) /\ param = 10
            /\ Vals(frames) \in {<<2, 2, 2, 2, 2>>, <<8, 8, 8, 8, 8>>})
           => selected = <<1>>
    /\ (SceneDone /\ AllClean(frames) /\ param = 30
            /\ Vals(frames) = <<2, 2, 2, 12, 12>>)
           => selected = <<1, 4>>

C3_Witness ==
    /\ SceneDone
    /\ AllClean(frames)
    /\ param = 30
    /\ Vals(frames) = <<2, 2, 2, 12, 12>>
    /\ selected = <<1, 4>>

\* C4: given a non-empty sequence and a valid threshold, neither scanning
\* selector ever raises, whatever happens on a frame.
C4_ScanNeverRaises ==
    (selector \in {"scene", "motion"} /\ Len(frames) > 0 /\ param >= 0)
        => pc # "raised"

\* C5: the result of every selector is an order-preserving subsequence of the
\* input: its positions are positions of the input and strictly increase.
C5_OrderedSubsequence ==
    pc = "done" =>
        /\ Range(selected) \subseteq 1..Len(frames)
        /\ StrictlyIncreasing(selected)
        /\ IsSubseq(selected, Positions(frames))

C5_Witness ==
    /\ SceneDone
    /\ Len(selected) >= 3
    /\ Len(selected) < Len(frames)

\* C6: for one frame sequence (one pattern of decode outcomes and histogram
\* distances) and thresholds t1 < t2, what scene_change_detection returns for
\* t2 is a subsequence of what it returns for t1.
C6_MonotoneShrinkage ==
    \A t1 \in DOMAIN results : \A t2 \in DOMAIN results :
        t1 < t2 =>
            /\ Range(results[t2]) \subseteq Range(results[t1])
            /\ IsSubseq(results[t2], results[t1])

C6_Witness ==
    /\ DOMAIN results = SceneThresholds
    /\ Len(results[30]) < Len(results[10])
    /\ Len(results[10]) < Len(results[0])

\* C7: motion_based_sampling never returns the frame at position 0, for any
\* threshold >= 0 (0 included) and any decode outcomes, shapes and motion.
C7_FirstFrameNeverSelected ==
    selector = "motion" => 1 \notin Range(selected)

C7_Witness ==
    /\ MotionDone
    /\ param = 0
    /\ frames[1].ok
    /\ selected # <<>>

\* C8: an invalid input (uniform: empty frames or count <= 0; scene: empty
\* frames; motion: empty frames or threshold < 0) raises ValueError at once:
\* no frame has been read and there is no partial result.
C8_InvalidInputRaisesAtOnce ==
    ( \/ selector = "uniform" /\ (Len(frames) = 0 \/ param <= 0)
      \/ selector = "scene" /\ Len(frames) = 0
      \/ selector = "motion" /\ (Len(frames) = 0 \/ param < 0) )
        => /\ pc = "raised"
           /\ err = "ValueError"
           /\ nread = 0
           /\ selected = <<>>

C8_Witness ==
    /\ selector = "motion"
    /\ Len(frames) > 0
    /\ param < 0
    /\ pc = "raised"
    /\ err = "ValueError"

\* C9: in motion_based_sampling, after the scan step of a decoded frame, be
\* it selected, not selected or skipped for its shape, the previous raster is
\* that frame (stated for sequences on which the flow primitive never raises).
C9_PrevIsLastDecoded ==
    (selector = "motion" /\ pc \in {"scan", "done"}
        /\ \A k \in 1..Len(frames) : ~frames[k].fault)
        => prev = IF DecodedUpTo(frames, i) = {} THEN None
                  ELSE Gray(frames[Max(DecodedUpTo(frames, i))])

\* C10: in scene_change_detection no frame that failed to decode is returned,
\* and the scan step of such a frame leaves the previous histogram as it was
\* (it stays that of the last decoded frame).
C10_UndecodableContributesNothing ==
    /\ SceneDone => \A k \in Range(selected) : frames[k].ok
    /\ (selector = "scene" /\ pc \in {"scan", "done"}) =>
           prev = IF DecodedUpTo(frames, i) = {} THEN None
                  ELSE Hist(frames[Max(DecodedUpTo(frames, i))])

====
